---- MODULE Spec2Model ----
(***************************************************************************)
(* A model of four parts of the transfer-learning toolkit:                 *)
(*   - tlk/datasets/tf_dataset.py: TFDataset (get_batch, shuffle_split);   *)
(*   - downloader/types.py: DatasetType.from_str and ModelType.from_str;   *)
(*   - tlt/distributed/pytorch/run_train_pyt.py: the launcher script;      *)
(*   - notebooks/.../model_utils.py: get_retrainable_model.                *)
(* Each part has its own specification (SpecDataset, SpecTypes,            *)
(* SpecLaunch, SpecRetrain); the variables of the other parts keep their   *)
(* idle values.                                                            *)
(***************************************************************************)
EXTENDS Integers, Sequences, FiniteSets, TLC

VARIABLES
    dataset,            \* TFDataset._dataset: None or Some(sequence of elements)
    train_subset,       \* TFDataset._train_subset
    validation_subset,  \* TFDataset._validation_subset
    test_subset,        \* TFDataset._test_subset
    validation_type,    \* TFDataset._validation_type
    call,               \* the last call made on the TFDataset and how it ended
    conv,               \* the last from_str call and how it ended
    pc,                 \* the launcher script's position
    argv,               \* the launcher's command line
    args,               \* the namespace parse_args returned
    loaded_objects,     \* what load_saved_objects returned
    job,                \* what launch_distributed_job was called with
    loads,              \* number of load_saved_objects calls
    launches,           \* number of launch_distributed_job calls
    rpc,                \* get_retrainable_model's position
    rargs,              \* get_retrainable_model's arguments
    model,              \* get_retrainable_model's local: the torch model
    classifier          \* get_retrainable_model's local: the old classifier layer

vars == <<dataset, train_subset, validation_subset, test_subset, validation_type,
          call, conv, pc, argv, args, loaded_objects, job, loads, launches,
          rpc, rargs, model, classifier>>

datasetVars == <<dataset, train_subset, validation_subset, test_subset,
                 validation_type, call>>
typesVars == <<conv>>
launchVars == <<pc, argv, args, loaded_objects, job, loads, launches>>
retrainVars == <<rpc, rargs, model, classifier>>

-----------------------------------------------------------------------------
(* Bounds *)

\* Longest dataset (in elements: examples, or batches once batched).
MaxLen == 3
\* Percentages are the floats k/PctDen; k ranges over 0..PctDen (0.0 to
\* 1.0), so that sums below, equal to and above 1 all occur.
PctDen == 4
\* Largest num_classes given to get_retrainable_model.
MaxClasses == 3
\* Largest input feature count of a pretrained classifier layer.
MaxFeatures == 2
\* Largest number of layers before the classifier in a pretrained model.
MaxBackbone == 2

-----------------------------------------------------------------------------
(* Python values *)

\* Optional values: None is the empty tuple, a defined value x is <<x>>.
None == <<>>
Some(x) == <<x>>
Get(o) == o[1]

Range(s) == {s[i] : i \in DOMAIN s}

-----------------------------------------------------------------------------
(* tlk/datasets/tf_dataset.py *)

\* A framework dataset of n elements, in its original order.
DatasetOf(n) == [i \in 1..n |-> i]

\* len(dataset)
DsLen(ds) == Len(ds)

\* dataset.take(count), count >= 0: a new dataset of the first count elements.
Take(ds, count) == SubSeq(ds, 1, IF count < Len(ds) THEN count ELSE Len(ds))

\* dataset.skip(count), count >= 0: a new dataset without the first count elements.
Skip(ds, count) == SubSeq(ds, count + 1, Len(ds))

\* dataset.shuffle(buffer_size, seed) with buffer_size = len(dataset): the new
\* datasets it can return, one per ordering of the elements (the seed picks one).
Shuffle(ds) == {[i \in 1..Len(ds) |-> ds[p[i]]] : p \in Permutations(1..Len(ds))}

\* A percentage argument: a float k/PctDen, or a non-float (the int 0 or 1).
FloatArg(k) == [kind |-> "float", num |-> k]
IntArg(v) == [kind |-> "int", num |-> v * PctDen]
PctArgs == {FloatArg(k) : k \in 0..PctDen} \cup {IntArg(v) : v \in 0..1}

\* Mutant of IsFloat: a check for numbers, isinstance(x, (int, float)).
IsFloat_AnyNumber(x) == x.kind \in {"float", "int"}

\* isinstance(x, float)
IsFloat(x) == x.kind = "float"

\* int(pct * length) for pct = x.num/PctDen >= 0
SizeOf(x, length) == (x.num * length) \div PctDen

\* Mutant of SumOverOne: the comparison written >= instead of >.
SumOverOne_AtLeast(t, v, s) == t.num + v.num + s.num >= PctDen

\* train_pct + val_pct + test_pct > 1.0
SumOverOne(t, v, s) == t.num + v.num + s.num > PctDen

\* Mutant of Truthy: a test for None, true of 0.0 as well.
Truthy_NotNone(x) == TRUE

\* if test_pct:
Truthy(x) == x.num # 0

NoPcts == <<FloatArg(0), FloatArg(0), FloatArg(0)>>

CallRec(op, subset, pcts, outcome, msg, ret, shuffled) ==
    [op |-> op, subset |-> subset, pcts |-> pcts, outcome |-> outcome,
     msg |-> msg, ret |-> ret, shuffled |-> shuffled]

MsgNoBatch == "Unable to return a batch, because the dataset or subset hasn't been defined."
MsgFloats == "Percentage arguments must be floats."
MsgSum == "Sum of percentage arguments must be less than or equal to 1."

\* TFDataset.__init__: the subsets start as None; the dataset itself is None
\* until a subclass has loaded it.
InitDataset ==
    /\ dataset \in {None} \cup {Some(DatasetOf(n)) : n \in 0..MaxLen}
    /\ train_subset = None
    /\ validation_subset = None
    /\ test_subset = None
    /\ validation_type = None
    /\ call = CallRec("init", "", NoPcts, "ok", "", 0, None)

\* Mutant of FirstBatch: the last element instead of the first.
FirstBatch_Last(subset, ds) ==
    IF Len(ds) > 0
    THEN CallRec("get_batch", subset, NoPcts, "ok", "", ds[Len(ds)], None)
    ELSE CallRec("get_batch", subset, NoPcts, "StopIteration", "", 0, None)

\* next(iter(ds)): the first element, or StopIteration on an empty dataset.
FirstBatch(subset, ds) ==
    IF Len(ds) > 0
    THEN CallRec("get_batch", subset, NoPcts, "ok", "", Head(ds), None)
    ELSE CallRec("get_batch", subset, NoPcts, "StopIteration", "", 0, None)

GetBatchResult(subset) ==
    IF subset = "all" /\ dataset # None THEN FirstBatch(subset, Get(dataset))
    ELSE IF subset = "train" /\ train_subset # None
        THEN FirstBatch(subset, Get(train_subset))
    ELSE IF subset = "validation" /\ validation_subset # None
        THEN FirstBatch(subset, Get(validation_subset))
    ELSE IF subset = "test" /\ test_subset # None
        THEN FirstBatch(subset, Get(test_subset))
    ELSE CallRec("get_batch", subset, NoPcts, "ValueError", MsgNoBatch, 0, None)

SubsetNames == {"all", "train", "validation", "test", "other"}

\* TFDataset.get_batch(subset)
get_batch ==
    \E subset \in SubsetNames :
        /\ call' = GetBatchResult(subset)
        /\ UNCHANGED <<dataset, train_subset, validation_subset, test_subset,
                       validation_type>>

\* The type check of shuffle_split.
FloatsCheckFails(t, v, s) == ~(IsFloat(t) /\ IsFloat(v) /\ IsFloat(s))

\* The subset shuffle_split takes the train elements from.
TrainOf(ds, shuffled, train_size) == Take(ds, train_size)

\* Mutant of ValidationOf: the skip of the train elements left out.
ValidationOf_NoSkip(ds, shuffled, train_size, val_size) == Take(ds, val_size)

\* The subset shuffle_split takes the validation elements from.
ValidationOf(ds, shuffled, train_size, val_size) ==
    Take(Skip(ds, train_size), val_size)

\* The test subset of shuffle_split.
TestOf(ds, shuffled, train_size, val_size) == Skip(ds, train_size + val_size)

\* TFDataset.shuffle_split(train_pct, val_pct, test_pct, seed)
shuffle_split ==
    \E t, v, s \in PctArgs :
        LET pcts == <<t, v, s>> IN
        IF FloatsCheckFails(t, v, s) THEN
            /\ call' = CallRec("shuffle_split", "", pcts, "ValueError", MsgFloats, 0, None)
            /\ UNCHANGED <<dataset, train_subset, validation_subset, test_subset,
                           validation_type>>
        ELSE IF SumOverOne(t, v, s) THEN
            /\ call' = CallRec("shuffle_split", "", pcts, "ValueError", MsgSum, 0, None)
            /\ UNCHANGED <<dataset, train_subset, validation_subset, test_subset,
                           validation_type>>
        ELSE IF dataset = None THEN
            \* len(None)
            /\ call' = CallRec("shuffle_split", "", pcts, "TypeError", "", 0, None)
            /\ UNCHANGED <<dataset, train_subset, validation_subset, test_subset,
                           validation_type>>
        ELSE
            LET ds == Get(dataset)
                length == DsLen(ds)
                train_size == SizeOf(t, length)
                val_size == SizeOf(v, length)
            IN  \E shuffled \in Shuffle(ds) :
                    \* the dataset shuffle returns is not assigned to anything
                    /\ train_subset' = Some(TrainOf(ds, shuffled, train_size))
                    /\ validation_subset' =
                           Some(ValidationOf(ds, shuffled, train_size, val_size))
                    /\ test_subset' =
                           IF Truthy(s)
                           THEN Some(TestOf(ds, shuffled, train_size, val_size))
                           ELSE None
                    /\ validation_type' = Some("shuffle_split")
                    /\ call' = CallRec("shuffle_split", "", pcts, "ok", "", 0,
                                       Some(shuffled))
                    /\ UNCHANGED dataset

-----------------------------------------------------------------------------
(* downloader/types.py *)

\* A Python str is the tuple of its characters. str.lower() maps each of
\* A..Z to a..z and leaves every other character as it is.
UpperChars == <<"A", "B", "C", "D", "E", "F", "G", "H", "I", "J", "K", "L", "M",
                "N", "O", "P", "Q", "R", "S", "T", "U", "V", "W", "X", "Y", "Z">>
LowerChars == <<"a", "b", "c", "d", "e", "f", "g", "h", "i", "j", "k", "l", "m",
                "n", "o", "p", "q", "r", "s", "t", "u", "v", "w", "x", "y", "z">>

LowerChar(c) ==
    IF \E i \in DOMAIN UpperChars : UpperChars[i] = c
    THEN LowerChars[CHOOSE i \in DOMAIN UpperChars : UpperChars[i] = c]
    ELSE c

UpperChar(c) ==
    IF \E i \in DOMAIN LowerChars : LowerChars[i] = c
    THEN UpperChars[CHOOSE i \in DOMAIN LowerChars : LowerChars[i] = c]
    ELSE c

\* str.lower()
Lower(s) == [i \in DOMAIN s |-> LowerChar(s[i])]
\* str.upper()
Upper(s) == [i \in DOMAIN s |-> UpperChar(s[i])]
\* str.capitalize() of an all-lowercase string
Capitalize(s) == [i \in DOMAIN s |-> IF i = 1 THEN UpperChar(s[i]) ELSE s[i]]

\* DatasetType.from_str: the list of the TENSORFLOW_DATASETS branch
DatasetTensorflowAliases ==
    { <<"t", "f", "d", "s">>,
      <<"t", "e", "n", "s", "o", "r", "f", "l", "o", "w">>,
      <<"t", "e", "n", "s", "o", "r", "f", "l", "o", "w", "_", "d", "a", "t", "a", "s", "e", "t", "s">>,
      <<"t", "e", "n", "s", "o", "r", "f", "l", "o", "w", " ", "d", "a", "t", "a", "s", "e", "t", "s">>,
      <<"t", "e", "n", "s", "o", "r", "f", "l", "o", "w", "_", "d", "a", "t", "a", "s", "e", "t">>,
      <<"t", "e", "n", "s", "o", "r", "f", "l", "o", "w", " ", "d", "a", "t", "a", "s", "e", "t">> }

\* DatasetType.from_str: the list of the TORCHVISION branch
DatasetTorchvisionAliases ==
    { <<"t", "o", "r", "c", "h", "v", "i", "s", "i", "o", "n">> }

\* DatasetType.from_str: the list of the HUGGING_FACE branch
DatasetHuggingFaceAliases ==
    { <<"h", "u", "g", "g", "i", "n", "g", "f", "a", "c", "e">>,
      <<"h", "u", "g", "g", "i", "n", "g", "_", "f", "a", "c", "e">>,
      <<"h", "u", "g", "g", "i", "n", "g", " ", "f", "a", "c", "e">> }

\* DatasetType.from_str: the list of the GENERIC branch
DatasetGenericAliases ==
    { <<"g", "e", "n", "e", "r", "i", "c">> }

\* ModelType.from_str: the list of the TF_HUB branch
ModelTfHubAliases ==
    { <<"t", "f", "h", "u", "b">>,
      <<"t", "f", "_", "h", "u", "b">>,
      <<"t", "f", " ", "h", "u", "b">>,
      <<"t", "e", "n", "s", "o", "r", "f", "l", "o", "w", "_", "h", "u", "b">>,
      <<"t", "e", "n", "s", "o", "r", "f", "l", "o", "w", " ", "h", "u", "b">> }

\* ModelType.from_str: the list of the TORCHVISION branch
ModelTorchvisionAliases ==
    { <<"t", "o", "r", "c", "h", "v", "i", "s", "i", "o", "n">> }

\* ModelType.from_str: the list of the PYTORCH_HUB branch
ModelPytorchHubAliases ==
    { <<"p", "y", "t", "o", "r", "c", "h", "_", "h", "u", "b">>,
      <<"p", "y", "t", "_", "h", "u", "b">>,
      <<"t", "o", "r", "c", "h", "_", "h", "u", "b">>,
      <<"t", "o", "r", "c", "h", " ", "h", "u", "b">>,
      <<"p", "y", "t", "o", "r", "c", "h", " ", "h", "u", "b">> }

\* ModelType.from_str: the list of the HUGGING_FACE branch
ModelHuggingFaceAliases ==
    { <<"h", "u", "g", "g", "i", "n", "g", "f", "a", "c", "e">>,
      <<"h", "u", "g", "g", "i", "n", "g", "_", "f", "a", "c", "e">>,
      <<"h", "u", "g", "g", "i", "n", "g", " ", "f", "a", "c", "e">> }

\* Mutant of ModelKerasAliases: the short name 'keras' left out.
ModelKerasAliases_NoShort ==
    { <<"k", "e", "r", "a", "s", "_", "a", "p", "p", "l", "i", "c", "a", "t", "i", "o", "n", "s">>,
      <<"k", "e", "r", "a", "s", " ", "a", "p", "p", "l", "i", "c", "a", "t", "i", "o", "n", "s">> }

\* ModelType.from_str: the list of the KERAS_APPLICATIONS branch
ModelKerasAliases ==
    { <<"k", "e", "r", "a", "s">>,
      <<"k", "e", "r", "a", "s", "_", "a", "p", "p", "l", "i", "c", "a", "t", "i", "o", "n", "s">>,
      <<"k", "e", "r", "a", "s", " ", "a", "p", "p", "l", "i", "c", "a", "t", "i", "o", "n", "s">> }

\* ModelType.from_str: the list of the GENERIC branch
ModelGenericAliases ==
    { <<"g", "e", "n", "e", "r", "i", "c">> }

ConvRec(cls, arg, outcome, ret) ==
    [cls |-> cls, arg |-> arg, outcome |-> outcome, ret |-> ret]

\* DatasetType.from_str: dataset_str = dataset_str.lower()
DatasetNormalize(s) == Lower(s)

\* DatasetType.from_str(dataset_str)
DatasetFromStr(arg) ==
    IF arg = None THEN ConvRec("DatasetType", arg, "ok", "GENERIC")
    ELSE LET dataset_str == DatasetNormalize(Get(arg)) IN
        IF dataset_str \in DatasetTensorflowAliases
            THEN ConvRec("DatasetType", arg, "ok", "TENSORFLOW_DATASETS")
        ELSE IF dataset_str \in DatasetTorchvisionAliases
            THEN ConvRec("DatasetType", arg, "ok", "TORCHVISION")
        ELSE IF dataset_str \in DatasetHuggingFaceAliases
            THEN ConvRec("DatasetType", arg, "ok", "HUGGING_FACE")
        ELSE IF dataset_str \in DatasetGenericAliases
            THEN ConvRec("DatasetType", arg, "ok", "GENERIC")
        ELSE ConvRec("DatasetType", arg, "ValueError", "")

\* ModelType.from_str: the statement model_str = model_str.lower() stands in the
\* body of "if model_str is None", after its return, so it never runs and the
\* string is compared as given.
ModelNormalize(s) == s

\* Mutant of ModelUnsupported: an unlisted string falls back to GENERIC.
ModelUnsupported_Generic(arg) == ConvRec("ModelType", arg, "ok", "GENERIC")

\* What the last branch of ModelType.from_str does with an unlisted string.
ModelUnsupported(arg) == ConvRec("ModelType", arg, "ValueError", "")

\* ModelType.from_str(model_str)
ModelFromStr(arg) ==
    IF arg = None THEN ConvRec("ModelType", arg, "ok", "GENERIC")
    ELSE LET model_str == ModelNormalize(Get(arg)) IN
        IF model_str \in ModelTfHubAliases
            THEN ConvRec("ModelType", arg, "ok", "TF_HUB")
        ELSE IF model_str \in ModelTorchvisionAliases
            THEN ConvRec("ModelType", arg, "ok", "TORCHVISION")
        ELSE IF model_str \in ModelPytorchHubAliases
            THEN ConvRec("ModelType", arg, "ok", "PYTORCH_HUB")
        ELSE IF model_str \in ModelHuggingFaceAliases
            THEN ConvRec("ModelType", arg, "ok", "HUGGING_FACE")
        ELSE IF model_str \in ModelKerasAliases
            THEN ConvRec("ModelType", arg, "ok", "KERAS_APPLICATIONS")
        ELSE IF model_str \in ModelGenericAliases
            THEN ConvRec("ModelType", arg, "ok", "GENERIC")
        ELSE ModelUnsupported(arg)

DatasetAliases ==
    DatasetTensorflowAliases \cup DatasetTorchvisionAliases
        \cup DatasetHuggingFaceAliases \cup DatasetGenericAliases

ModelAliases ==
    ModelTfHubAliases \cup ModelTorchvisionAliases \cup ModelPytorchHubAliases
        \cup ModelHuggingFaceAliases \cup ModelKerasAliases \cup ModelGenericAliases

\* The hub names of test_bad_hub, and a mixed-case spelling.
BadHubs == { <<"f", "o", "o">>, <<"b", "a", "r">>, <<"b", "a", "z">> }
MixedCase == { <<"T", "F", "H", "u", "b">>, <<"T", "F", "D", "S">> }

\* The hub names test_hub_download passes to the downloader.
TestHubNames ==
    { <<"t", "f", "_", "h", "u", "b">>,
      <<"t", "f", "h", "u", "b">>,
      <<"t", "o", "r", "c", "h", "v", "i", "s", "i", "o", "n">>,
      <<"p", "y", "t", "o", "r", "c", "h", "_", "h", "u", "b">>,
      <<"h", "u", "g", "g", "i", "n", "g", "f", "a", "c", "e">>,
      <<"h", "u", "g", "g", "i", "n", "g", "_", "f", "a", "c", "e">>,
      <<"k", "e", "r", "a", "s", "_", "a", "p", "p", "l", "i", "c", "a", "t", "i", "o", "n", "s">>,
      <<"k", "e", "r", "a", "s">> }

\* The strings from_str is called with: every listed alias as written, in
\* upper case and capitalized, the unlisted names and the names of the tests.
InputStrings ==
    LET listed == DatasetAliases \cup ModelAliases IN
    listed \cup {Upper(s) : s \in listed} \cup {Capitalize(s) : s \in listed}
        \cup BadHubs \cup MixedCase \cup TestHubNames

FromStrArgs == {None} \cup {Some(s) : s \in InputStrings}

InitTypes == conv = None

DatasetType_from_str ==
    \E arg \in FromStrArgs :
        conv' = Some(DatasetFromStr(arg))

ModelType_from_str ==
    \E arg \in FromStrArgs :
        conv' = Some(ModelFromStr(arg))

-----------------------------------------------------------------------------
(* tlt/distributed/pytorch/run_train_pyt.py *)

\* parser.add_argument(..., required=..., default=...) of each option.
MasterAddrOpt == [required |-> TRUE, default |-> None]
MasterPortOpt == [required |-> TRUE, default |-> Some("29500")]
BackendOpt == [required |-> FALSE, default |-> Some("ccl")]
UseCaseOpt == [required |-> TRUE, default |-> None]
EpochsOpt == [required |-> FALSE, default |-> Some(1)]
BatchSizeOpt == [required |-> FALSE, default |-> Some(128)]

\* argparse: a required option that is not on the command line is an error,
\* whatever default it declares.
OptionMissing(opt, given) == opt.required /\ given = None

\* argparse: the value of an option: the one given, else the declared default.
OptionValue(opt, given) == IF given # None THEN given ELSE opt.default

\* The command lines the script is started with: each option given or not.
CommandLines ==
    [master_addr : {None, Some("10.0.0.1")},
     master_port : {None, Some("29500"), Some("12345")},
     backend : {None, Some("gloo")},
     use_case : {None, Some("image_classification")},
     epochs : {None, Some(3)},
     batch_size : {None, Some(32)},
     disable_ipex : BOOLEAN]

InitLaunch ==
    /\ pc = "start"
    /\ argv \in CommandLines
    /\ args = None
    /\ loaded_objects = None
    /\ job = None
    /\ loads = 0
    /\ launches = 0

\* args = parser.parse_args(): exits with a usage error (status 2) when a
\* required option is missing.
ParseArgs ==
    /\ pc = "start"
    /\ IF \/ OptionMissing(MasterAddrOpt, argv.master_addr)
          \/ OptionMissing(MasterPortOpt, argv.master_port)
          \/ OptionMissing(BackendOpt, argv.backend)
          \/ OptionMissing(UseCaseOpt, argv.use_case)
          \/ OptionMissing(EpochsOpt, argv.epochs)
          \/ OptionMissing(BatchSizeOpt, argv.batch_size)
       THEN /\ pc' = "usage_error"
            /\ UNCHANGED args
       ELSE /\ pc' = "parsed"
            /\ args' = Some([master_addr |-> OptionValue(MasterAddrOpt, argv.master_addr),
                             master_port |-> OptionValue(MasterPortOpt, argv.master_port),
                             backend |-> OptionValue(BackendOpt, argv.backend),
                             use_case |-> OptionValue(UseCaseOpt, argv.use_case),
                             epochs |-> OptionValue(EpochsOpt, argv.epochs),
                             batch_size |-> OptionValue(BatchSizeOpt, argv.batch_size),
                             disable_ipex |-> argv.disable_ipex])
    /\ UNCHANGED <<argv, loaded_objects, job, loads, launches>>

\* The dictionaries load_saved_objects returns: the keys the script indexes are
\* there, each of the keys it reads with .get may be. Every key holds an object
\* of its own, named after the key.
RequiredKeys == {"dataset", "model", "loss", "optimizer"}
OptionalKeys == {"train_subset", "test_subset", "validation_subset"}
SavedObjects == {[k \in RequiredKeys \cup opt |-> k] : opt \in SUBSET OptionalKeys}

\* dict.get(key, default)
DictGet(d, key, default) == IF key \in DOMAIN d THEN d[key] ELSE default

\* loaded_objects = DistributedTorch.load_saved_objects(use_case=args.use_case)
LoadSavedObjects ==
    /\ pc = "parsed"
    /\ \E d \in SavedObjects : loaded_objects' = Some(d)
    /\ loads' = loads + 1
    /\ pc' = "loaded"
    /\ UNCHANGED <<argv, args, job, launches>>

\* Mutant of TrainingDataset: the validation subset passed as the dataset.
TrainingDataset_Validation(lo) == DictGet(lo, "validation_subset", lo["dataset"])

\* DistributedTrainingArguments(dataset=train_subset, ...)
TrainingDataset(lo) == DictGet(lo, "train_subset", lo["dataset"])

\* DistributedTrainingArguments(...) of the objects read from loaded_objects
TrainingArguments(lo, a) ==
    LET test_subset_l == DictGet(lo, "test_subset", lo["dataset"])
        validation_subset_l == DictGet(lo, "validation_subset", lo["dataset"])
    IN  [dataset |-> TrainingDataset(lo),
         model |-> lo["model"],
         criterion |-> lo["loss"],
         optimizer |-> lo["optimizer"],
         epochs |-> a.epochs,
         batch_size |-> a.batch_size,
         disable_ipex |-> a.disable_ipex]

\* dt.launch_distributed_job(training_args, args.master_addr, args.master_port,
\* args.backend), with the training arguments built just before it.
LaunchDistributedJob ==
    /\ pc = "loaded"
    /\ job' = Some([training_args |-> TrainingArguments(Get(loaded_objects), Get(args)),
                    use_case |-> Get(args).use_case,
                    master_addr |-> Get(args).master_addr,
                    master_port |-> Get(args).master_port,
                    backend |-> Get(args).backend])
    /\ launches' = launches + 1
    /\ pc' = "done"
    /\ UNCHANGED <<argv, args, loaded_objects, loads>>

-----------------------------------------------------------------------------
(* notebooks/video_classification/pytorch_video_classification/model_utils.py *)

\* The models are pretrained on Kinetics-400: their classifier has 400 outputs.
KineticsClasses == 400

\* torchvision_model_map
torchvision_model_map ==
    [name \in {"r3d_18", "mc3_18", "r2plus1d_18"} |-> [classifier |-> "fc"]]

ParamNames == {"weight", "bias"}

\* A layer of a torch model: where it comes from, its feature counts (0 for a
\* layer that has none) and the requires_grad flag of each of its parameters.
Layer(origin, in_features, out_features, grad) ==
    [origin |-> origin, in_features |-> in_features,
     out_features |-> out_features,
     requires_grad |-> [p \in ParamNames |-> grad]]

\* torch.nn.Linear(in_features, out_features): a new layer, its parameters
\* trainable.
Linear(in_features, out_features) == Layer("new", in_features, out_features, TRUE)

BackboneNames == <<"stem", "layer1", "layer2", "layer3", "layer4">>

\* pretrained_model_class(pretrained=True): a model of depth layers and a
\* classifier fc over num_features features; every parameter is trainable.
Pretrained(depth, num_features) ==
    [l \in {BackboneNames[i] : i \in 1..depth} \cup {"fc"} |->
        IF l = "fc" THEN Layer("pretrained", num_features, KineticsClasses, TRUE)
        ELSE Layer("pretrained", 0, 0, TRUE)]

\* Mutant of Frozen: the classifier layer left out of the loop.
Frozen_NotClassifier(m) ==
    [l \in DOMAIN m |->
        IF l = "fc" THEN m[l]
        ELSE [m[l] EXCEPT !.requires_grad = [p \in ParamNames |-> FALSE]]]

\* for param in model.parameters(): param.requires_grad = False
Frozen(m) ==
    [l \in DOMAIN m |-> [m[l] EXCEPT !.requires_grad = [p \in ParamNames |-> FALSE]]]

\* The calls of get_retrainable_model: the three names of the map and one that
\* is not in it.
RetrainCalls ==
    [model_name : DOMAIN torchvision_model_map \cup {"s3d"},
     num_classes : 1..MaxClasses,
     do_fine_tuning : BOOLEAN]

InitRetrain ==
    /\ rpc = "start"
    /\ rargs \in RetrainCalls
    /\ model = None
    /\ classifier = None

\* The lookup in torchvision_model_map (KeyError for a name that is not in it)
\* and model = pretrained_model_class(pretrained=True).
LoadPretrained ==
    /\ rpc = "start"
    /\ IF rargs.model_name \notin DOMAIN torchvision_model_map
       THEN /\ rpc' = "KeyError"
            /\ UNCHANGED model
       ELSE /\ \E depth \in 1..MaxBackbone, num_features \in 1..MaxFeatures :
                   model' = Some(Pretrained(depth, num_features))
            /\ rpc' = "loaded"
    /\ UNCHANGED <<rargs, classifier>>

\* if not do_fine_tuning: freeze every parameter of the model.
FreezeParameters ==
    /\ rpc = "loaded"
    /\ model' = IF ~rargs.do_fine_tuning THEN Some(Frozen(Get(model))) ELSE model
    /\ rpc' = "frozen"
    /\ UNCHANGED <<rargs, classifier>>

\* The else branch of isinstance(classifier_layer, list), and return model.
\* classifier_layer is a str in every entry of the map, so the list branch
\* does not run.
ReplaceClassifier ==
    /\ rpc = "frozen"
    /\ LET classifier_layer == torchvision_model_map[rargs.model_name].classifier
           old == Get(model)[classifier_layer]
           num_features == old.in_features
       IN  /\ classifier' = Some(old)
           /\ model' = Some([Get(model) EXCEPT
                                ![classifier_layer] = Linear(num_features, rargs.num_classes)])
    /\ rpc' = "returned"
    /\ UNCHANGED rargs

\* get_retrainable_model not called, for the specifications of the other parts.
IdleRetrain ==
    /\ rpc = "idle"
    /\ rargs = None
    /\ model = None
    /\ classifier = None

\* The launcher not started, for the specifications of the other parts.
IdleLaunch ==
    /\ pc = "idle"
    /\ argv = None
    /\ args = None
    /\ loaded_objects = None
    /\ job = None
    /\ loads = 0
    /\ launches = 0

NextDataset ==
    \/ get_batch /\ UNCHANGED <<typesVars, launchVars, retrainVars>>
    \/ shuffle_split /\ UNCHANGED <<typesVars, launchVars, retrainVars>>

DatasetStart == InitDataset /\ InitTypes /\ IdleLaunch /\ IdleRetrain

SpecDataset == DatasetStart /\ [][NextDataset]_vars

NextTypes ==
    \/ DatasetType_from_str /\ UNCHANGED <<datasetVars, launchVars, retrainVars>>
    \/ ModelType_from_str /\ UNCHANGED <<datasetVars, launchVars, retrainVars>>

\* The TFDataset object before any call, for the specifications of the other parts.
IdleDataset ==
    /\ dataset = None
    /\ train_subset = None
    /\ validation_subset = None
    /\ test_subset = None
    /\ validation_type = None
    /\ call = CallRec("init", "", NoPcts, "ok", "", 0, None)

TypesStart == IdleDataset /\ InitTypes /\ IdleLaunch /\ IdleRetrain

SpecTypes == TypesStart /\ [][NextTypes]_vars

NextLaunch ==
    \/ ParseArgs /\ UNCHANGED <<datasetVars, typesVars, retrainVars>>
    \/ LoadSavedObjects /\ UNCHANGED <<datasetVars, typesVars, retrainVars>>
    \/ LaunchDistributedJob /\ UNCHANGED <<datasetVars, typesVars, retrainVars>>

LaunchStart == IdleDataset /\ InitTypes /\ InitLaunch /\ IdleRetrain

SpecLaunch == LaunchStart /\ [][NextLaunch]_vars

NextRetrain ==
    \/ LoadPretrained /\ UNCHANGED <<datasetVars, typesVars, launchVars>>
    \/ FreezeParameters /\ UNCHANGED <<datasetVars, typesVars, launchVars>>
    \/ ReplaceClassifier /\ UNCHANGED <<datasetVars, typesVars, launchVars>>

RetrainStart == IdleDataset /\ InitTypes /\ IdleLaunch /\ InitRetrain

SpecRetrain == RetrainStart /\ [][NextRetrain]_vars

-----------------------------------------------------------------------------
(* Properties of TFDataset (checked under SpecDataset) *)

\* The last call was a shuffle_split that returned normally.
SplitDone == call.op = "shuffle_split" /\ call.outcome = "ok"

\* floor(k * n / PctDen): int(pct * n) for the percentage k/PctDen.
IntOf(k, n) == (k * n) \div PctDen

AllFloats(pcts) == \A i \in 1..3 : pcts[i].kind = "float"
SumNum(pcts) == pcts[1].num + pcts[2].num + pcts[3].num
Subsets == <<train_subset, validation_subset, test_subset, validation_type>>

\* C1: after a successful shuffle_split the train, validation and test subsets
\* are consecutive pieces of the ordering that shuffling the dataset produced,
\* not of the dataset's original ordering.
C1_SubsetsFromShuffled ==
    SplitDone =>
        LET sh == Get(call.shuffled)
            n == Len(Get(dataset))
            ts == IntOf(call.pcts[1].num, n)
            vs == IntOf(call.pcts[2].num, n)
        IN  /\ Get(train_subset) = SubSeq(sh, 1, ts)
            /\ Get(validation_subset) = SubSeq(sh, ts + 1, ts + vs)
            /\ test_subset # None => Get(test_subset) = SubSeq(sh, ts + vs + 1, n)

\* C2: after a successful shuffle_split on n elements, train_subset is the
\* first int(train_pct*n) elements and validation_subset the next
\* int(val_pct*n) elements of the dataset's ordering, and no element is in both.
C2_TrainThenValidation ==
    SplitDone =>
        LET ds == Get(dataset)
            n == Len(ds)
            ts == IntOf(call.pcts[1].num, n)
            vs == IntOf(call.pcts[2].num, n)
        IN  /\ Get(train_subset) = SubSeq(ds, 1, ts)
            /\ Get(validation_subset) = SubSeq(ds, ts + 1, ts + vs)
            /\ Len(Get(train_subset)) = ts
            /\ Len(Get(validation_subset)) = vs
            /\ Range(Get(train_subset)) \cap Range(Get(validation_subset)) = {}

\* C2 witness: a split that left both subsets non-empty.
C2_Witness ==
    /\ SplitDone
    /\ Len(Get(train_subset)) > 0
    /\ Len(Get(validation_subset)) > 0

\* C3: after a successful shuffle_split with test_pct > 0 on n elements,
\* test_subset holds int(test_pct*n) elements.
C3_TestSubsetSize ==
    (SplitDone /\ call.pcts[3].num > 0) =>
        /\ test_subset # None
        /\ Len(Get(test_subset)) = IntOf(call.pcts[3].num, Len(Get(dataset)))

\* C4: with three float arguments, shuffle_split raises the ValueError of the
\* sum check exactly when the sum is greater than 1; with a sum of at most 1,
\* on a defined dataset, it returns normally and leaves train and validation
\* subsets.
C4_SumCheck ==
    (call.op = "shuffle_split" /\ AllFloats(call.pcts)) =>
        /\ call.outcome = "ValueError" <=> SumNum(call.pcts) > PctDen
        /\ call.outcome = "ValueError" => call.msg = MsgSum
        /\ (SumNum(call.pcts) <= PctDen /\ dataset # None) =>
               /\ call.outcome = "ok"
               /\ train_subset # None
               /\ validation_subset # None

\* C4 witness: a split with train_pct = val_pct = 1/PctDen and test_pct = 0.0
\* (a sum strictly below 1) that produced subsets.
C4_Witness ==
    /\ SplitDone
    /\ call.pcts = <<FloatArg(1), FloatArg(1), FloatArg(0)>>
    /\ SumNum(call.pcts) < PctDen
    /\ train_subset # None
    /\ validation_subset # None

\* C5: a shuffle_split call with an argument that is not a float raises the
\* ValueError of the type check, whatever the sum and whether or not there is a
\* dataset, and leaves the subsets and the validation type as they were.
C5_NonFloatRejectedFirst ==
    [][(call'.op = "shuffle_split" /\ ~AllFloats(call'.pcts)) =>
           /\ call'.outcome = "ValueError"
           /\ call'.msg = MsgFloats
           /\ Subsets' = Subsets]_vars

\* C5 witness: shuffle_split(1, 1, 1), three ints whose sum is above 1, was
\* rejected by the type check on an object that had been split before.
C5_Witness ==
    /\ call.op = "shuffle_split"
    /\ call.pcts = <<IntArg(1), IntArg(1), IntArg(1)>>
    /\ call.outcome = "ValueError"
    /\ call.msg = MsgFloats
    /\ train_subset # None

\* The dataset or subset a name asks get_batch for (None for any other name).
Requested(subset) ==
    CASE subset = "all" -> dataset
      [] subset = "train" -> train_subset
      [] subset = "validation" -> validation_subset
      [] subset = "test" -> test_subset
      [] OTHER -> None

\* C6 as stated: get_batch returns the first batch of the requested dataset or
\* subset whenever that one is defined, and raises ValueError otherwise.
C6_GetBatchOriginal ==
    call.op = "get_batch" =>
        IF Requested(call.subset) # None
        THEN /\ call.outcome = "ok"
             /\ call.ret = Head(Get(Requested(call.subset)))
        ELSE call.outcome = "ValueError"

\* C6 amended: get_batch returns the first batch of the requested dataset or
\* subset when that one is defined and not empty, raises StopIteration when it
\* is defined and empty, and raises ValueError when it is None or the name is
\* not one of the four; before any successful shuffle_split the three subset
\* names raise ValueError.
C6_GetBatch ==
    call.op = "get_batch" =>
        /\ IF Requested(call.subset) = None
           THEN call.outcome = "ValueError" /\ call.msg = MsgNoBatch
           ELSE IF Len(Get(Requested(call.subset))) = 0
           THEN call.outcome = "StopIteration"
           ELSE /\ call.outcome = "ok"
                /\ call.ret = Get(Requested(call.subset))[1]
        /\ (validation_type = None /\ call.subset \in {"train", "validation", "test"})
               => call.outcome = "ValueError"

\* C6 witness: get_batch('validation') returned the first element of a
\* validation subset that does not start at the dataset's first element.
C6_Witness ==
    /\ call.op = "get_batch"
    /\ call.subset = "validation"
    /\ call.outcome = "ok"
    /\ call.ret = Get(validation_subset)[1]
    /\ call.ret # Get(dataset)[1]

\* C12: a shuffle_split call that returns normally leaves test_subset defined
\* exactly when its test_pct is not 0 (a test_pct of 0.0 resets an earlier test
\* subset to None) and sets the validation type to 'shuffle_split'; any other
\* call leaves the three subsets and the validation type as they were; and on
\* a new object the three subsets are None.
C12_TestSubsetFollowsLastSplit ==
    /\ (train_subset = None /\ validation_subset = None /\ test_subset = None)
    /\ [][IF call'.op = "shuffle_split" /\ call'.outcome = "ok"
          THEN /\ test_subset' # None <=> call'.pcts[3].num # 0
               /\ train_subset' # None
               /\ validation_subset' # None
               /\ validation_type' = Some("shuffle_split")
          ELSE Subsets' = Subsets]_vars

\* C12 witness: a successful shuffle_split with test_pct = 0.0 has left
\* test_subset None, the other subsets defined and the validation type set.
C12_Witness ==
    /\ SplitDone
    /\ call.pcts[3].num = 0
    /\ test_subset = None
    /\ train_subset # None
    /\ validation_type = Some("shuffle_split")

-----------------------------------------------------------------------------
(* Properties of from_str (checked under SpecTypes) *)

AliasesOf(cls) == IF cls = "DatasetType" THEN DatasetAliases ELSE ModelAliases

\* C7 as stated: from_str of either type raises ValueError for every non-None
\* string that is not one of the listed aliases.
C7_UnlistedRaisesOriginal ==
    (conv # None /\ Get(conv).arg # None
        /\ Get(Get(conv).arg) \notin AliasesOf(Get(conv).cls))
    => Get(conv).outcome = "ValueError"

\* C7 amended: from_str of either type raises ValueError, and returns no type,
\* for every non-None string whose lower-case form is not one of the listed
\* aliases.
C7_UnlistedRaises ==
    (conv # None /\ Get(conv).arg # None
        /\ Lower(Get(Get(conv).arg)) \notin AliasesOf(Get(conv).cls))
    => (Get(conv).outcome = "ValueError" /\ Get(conv).ret = "")

\* C7 witness: ModelType.from_str('foo') raised ValueError.
C7_Witness ==
    /\ conv # None
    /\ Get(conv).cls = "ModelType"
    /\ Get(conv).arg = Some(<<"f", "o", "o">>)
    /\ Get(conv).outcome = "ValueError"

\* The hub names of test_hub_download, each with the hub it stands for.
TestHubs ==
    { <<<<"t", "f", "_", "h", "u", "b">>, "TF_HUB">>,
      <<<<"t", "f", "h", "u", "b">>, "TF_HUB">>,
      <<<<"t", "o", "r", "c", "h", "v", "i", "s", "i", "o", "n">>, "TORCHVISION">>,
      <<<<"p", "y", "t", "o", "r", "c", "h", "_", "h", "u", "b">>, "PYTORCH_HUB">>,
      <<<<"h", "u", "g", "g", "i", "n", "g", "f", "a", "c", "e">>, "HUGGING_FACE">>,
      <<<<"h", "u", "g", "g", "i", "n", "g", "_", "f", "a", "c", "e">>, "HUGGING_FACE">>,
      <<<<"k", "e", "r", "a", "s">>, "KERAS_APPLICATIONS">>,
      <<<<"k", "e", "r", "a", "s", "_", "a", "p", "p", "l", "i", "c", "a", "t", "i", "o", "n", "s">>, "KERAS_APPLICATIONS">> }

ModelLists ==
    { <<"TF_HUB", ModelTfHubAliases>>,
      <<"TORCHVISION", ModelTorchvisionAliases>>,
      <<"PYTORCH_HUB", ModelPytorchHubAliases>>,
      <<"HUGGING_FACE", ModelHuggingFaceAliases>>,
      <<"KERAS_APPLICATIONS", ModelKerasAliases>>,
      <<"GENERIC", ModelGenericAliases>> }

\* C8: ModelType.from_str maps each hub name of the download test to its hub,
\* never to GENERIC; every one of these names is in the list of exactly that
\* type, and the lists of different types share no string.
C8_TestHubNames ==
    /\ \A h \in TestHubs :
           (conv # None /\ Get(conv).cls = "ModelType" /\ Get(conv).arg = Some(h[1]))
           => /\ Get(conv).outcome = "ok"
              /\ Get(conv).ret = h[2]
              /\ Get(conv).ret # "GENERIC"
              /\ \A l \in ModelLists : h[1] \in l[2] <=> l[1] = h[2]
    /\ \A l1, l2 \in ModelLists : l1[1] # l2[1] => l1[2] \cap l2[2] = {}

\* C8 witness: ModelType.from_str('keras') returned KERAS_APPLICATIONS.
C8_Witness ==
    /\ conv # None
    /\ Get(conv).cls = "ModelType"
    /\ Get(conv).arg = Some(<<"k", "e", "r", "a", "s">>)
    /\ Get(conv).ret = "KERAS_APPLICATIONS"

\* C11: ModelType.from_str treats a string like its lower-case form, as
\* DatasetType.from_str does: from_str(s) ends as from_str(lowercase(s)) ends
\* (the same type, or ValueError), for both types.
C11_CaseInsensitive ==
    (conv # None /\ Get(conv).arg # None) =>
        LET lowered == Some(Lower(Get(Get(conv).arg)))
            same == IF Get(conv).cls = "ModelType"
                    THEN ModelFromStr(lowered) ELSE DatasetFromStr(lowered)
        IN  /\ Get(conv).outcome = same.outcome
            /\ Get(conv).ret = same.ret

\* C13 as stated: from_str(None) of either type returns GENERIC without
\* raising, and GENERIC is returned for no string but 'generic'.
C13_GenericOriginal ==
    conv # None =>
        /\ Get(conv).arg = None =>
               (Get(conv).outcome = "ok" /\ Get(conv).ret = "GENERIC")
        /\ (Get(conv).arg # None /\ Get(conv).ret = "GENERIC") =>
               Get(Get(conv).arg) = <<"g", "e", "n", "e", "r", "i", "c">>

\* C13 amended: from_str(None) of either type returns GENERIC without raising,
\* and GENERIC is returned for no string but those whose lower-case form is
\* 'generic'.
C13_Generic ==
    conv # None =>
        /\ Get(conv).arg = None =>
               (Get(conv).outcome = "ok" /\ Get(conv).ret = "GENERIC")
        /\ (Get(conv).arg # None /\ Get(conv).ret = "GENERIC") =>
               Lower(Get(Get(conv).arg)) = <<"g", "e", "n", "e", "r", "i", "c">>

\* C13 witness: ModelType.from_str(None) returned GENERIC.
C13_Witness ==
    /\ conv # None
    /\ Get(conv).cls = "ModelType"
    /\ Get(conv).arg = None
    /\ Get(conv).outcome = "ok"
    /\ Get(conv).ret = "GENERIC"

-----------------------------------------------------------------------------
(* Properties of run_train_pyt (checked under SpecLaunch) *)

\* C9: the script loads the saved objects at most once and launches at most
\* once, never launches before it has loaded, and when it is done it has done
\* each exactly once; the job's dataset is the saved train_subset when there
\* is one and the saved dataset otherwise, and neither the validation nor the
\* test subset is among the job's training arguments.
C9_LoadOnceLaunchOnce ==
    /\ loads <= 1
    /\ launches <= loads
    /\ (pc = "done") =>
        LET lo == Get(loaded_objects)
            ta == Get(job).training_args
        IN  /\ loads = 1
            /\ launches = 1
            /\ ta.dataset = IF "train_subset" \in DOMAIN lo
                            THEN lo["train_subset"] ELSE lo["dataset"]
            /\ {ta.dataset, ta.model, ta.criterion, ta.optimizer}
                   \cap {"validation_subset", "test_subset"} = {}

\* C9 witness: a finished run whose saved objects held all three subsets.
C9_Witness ==
    /\ pc = "done"
    /\ OptionalKeys \subseteq DOMAIN Get(loaded_objects)
    /\ Get(job).training_args.dataset = "train_subset"

\* C10: a run whose command line gives --master_addr and --use_case and omits
\* --master_port ends with the job launched on master port '29500'.
C10_DefaultMasterPort ==
    (/\ argv.master_port = None
     /\ argv.master_addr # None
     /\ argv.use_case # None
     /\ pc \in {"done", "usage_error"})
    => (pc = "done" /\ Get(job).master_port = Some("29500"))

-----------------------------------------------------------------------------
(* Properties of get_retrainable_model (checked under SpecRetrain) *)

\* The parameters of model m that are trainable, each as <<layer, name>>.
Trainable(m) == {lp \in (DOMAIN m) \X ParamNames : m[lp[1]].requires_grad[lp[2]]}

\* C14: the freezing is done while the classifier is still the pretrained one;
\* in the returned model the classifier is a new layer with the old
\* classifier's input feature count and num_classes outputs; with
\* do_fine_tuning=False every pretrained parameter (the old classifier's
\* included) has requires_grad False and the trainable parameters are exactly
\* those of the new classifier; with do_fine_tuning=True no parameter is frozen.
C14_FreezeThenReplace ==
    /\ rpc = "frozen" =>
           /\ classifier = None
           /\ \A l \in DOMAIN Get(model) : Get(model)[l].origin = "pretrained"
           /\ ~rargs.do_fine_tuning => Trainable(Get(model)) = {}
           /\ rargs.do_fine_tuning =>
                  Trainable(Get(model)) = (DOMAIN Get(model)) \X ParamNames
    /\ rpc = "returned" =>
           LET m == Get(model)
               old == Get(classifier)
           IN  /\ m["fc"].origin = "new"
               /\ old.origin = "pretrained"
               /\ \A l \in DOMAIN m \ {"fc"} : m[l].origin = "pretrained"
               /\ m["fc"].in_features = old.in_features
               /\ m["fc"].out_features = rargs.num_classes
               /\ IF ~rargs.do_fine_tuning
                  THEN /\ \A p \in ParamNames : ~old.requires_grad[p]
                       /\ Trainable(m) = {"fc"} \X ParamNames
                  ELSE /\ \A p \in ParamNames : old.requires_grad[p]
                       /\ Trainable(m) = (DOMAIN m) \X ParamNames

\* C14 witness: a model returned with do_fine_tuning=False: more than one
\* frozen pretrained layer, and a new trainable classifier whose output count
\* differs from the pretrained one's.
C14_Witness ==
    /\ rpc = "returned"
    /\ ~rargs.do_fine_tuning
    /\ Cardinality(DOMAIN Get(model)) > 2
    /\ Get(model)["fc"].requires_grad["weight"]
    /\ ~Get(model)["stem"].requires_grad["weight"]
    /\ Get(model)["fc"].out_features # Get(classifier).out_features

====
